---- MODULE Spec2Model ----
(***************************************************************************)
(* A model of python_source_code/db.py: the sqlite table store behind      *)
(* InputDB (update_xl_reads, update_csv_reads, db_query, add_iso_to_table, *)
(* get_un_iso_map) and the three extraction functions that read it         *)
(* (get_bcg_coverage, get_crude_birth_rate, extract_demo_data).            *)
(*                                                                         *)
(* Python strings are sequences of one-character strings, so that          *)
(* str.isdigit, str.find, slicing, int() and float() are computed and not  *)
(* assumed.  Numbers that can carry a half (the period mid-points) are     *)
(* held in tenths: 1982.5 is 19825 and the integer 1980 is 19800, which    *)
(* keeps Python's equality of the dict keys 1980 and 1980.0.               *)
(***************************************************************************)
EXTENDS Integers, Sequences, FiniteSets, TLC

VARIABLES
  tables,    \* the sqlite store: table name -> table, or Absent
  map_df,    \* self.map_df
  ret,       \* the last call: what was called, on what, and how it ended
  lastLoad,  \* history: per table name, the content of the last file loaded under it
  lastJoin,  \* history: per table name, what its last add_iso_to_table wrote
  writer,    \* history: per table name, the kind of call that wrote it last
  built      \* history: crosswalk builds since the locations table was last loaded

vars == <<tables, map_df, ret, lastLoad, lastJoin, writer, built>>

(***************************************************************************)
(* Bounds of the model.                                                    *)
(***************************************************************************)
\* the most rows a spreadsheet, csv file or table drawn as an input holds
MaxRows == 2

(***************************************************************************)
(* The strings of the source.                                              *)
(***************************************************************************)
ISO_code == <<"I", "S", "O", "_", "c", "o", "d", "e">>
iso3 == <<"i", "s", "o", "3">>
CountryCode == <<"C", "o", "u", "n", "t", "r", "y", " ", "c", "o", "d", "e">>
LocationCode == <<"L", "o", "c", "a", "t", "i", "o", "n", " ", "c", "o", "d", "e">>
ISO3AlphaCode == <<"I", "S", "O", "3", " ", "A", "l", "p", "h", "a", "-", "c", "o", "d", "e">>
IndexCol == <<"I", "n", "d", "e", "x">>
Period == <<"P", "e", "r", "i", "o", "d">>
RefDate == <<"R", "e", "f", "e", "r", "e", "n", "c", "e", " ", "d", "a", "t", "e", " ", "(", "a", "s", " ", "o", "f", " ", "1", " ", "J", "u", "l", "y", ")">>
L95plus == <<"9", "5", "+">>
L95dash == <<"9", "5", "-">>
MappedSuffix == <<"_", "m", "a", "p", "p", "e", "d">>
un_iso3_map == <<"u", "n", "_", "i", "s", "o", "3", "_", "m", "a", "p">>
crude_birth_rate == <<"c", "r", "u", "d", "e", "_", "b", "i", "r", "t", "h", "_", "r", "a", "t", "e">>
crude_birth_rate_mapped == <<"c", "r", "u", "d", "e", "_", "b", "i", "r", "t", "h", "_", "r", "a", "t", "e", "_", "m", "a", "p", "p", "e", "d">>
bcg == <<"b", "c", "g">>
BCG == <<"B", "C", "G">>
Star == <<"*">>
Empty == <<>>

(***************************************************************************)
(* Labels and values of the input data (not in the source).                *)
(***************************************************************************)
\* pandas names an unnamed index "index" when it writes a frame to sql
indexCol == <<"i", "n", "d", "e", "x">>
VariantCol == <<"V", "a", "r", "i", "a", "n", "t">>
VaccineCol == <<"V", "a", "c", "c", "i", "n", "e">>
total_population_mapped == <<"t", "o", "t", "a", "l", "_", "p", "o", "p", "u", "l", "a", "t", "i", "o", "n", "_", "m", "a", "p", "p", "e", "d">>
MNG == <<"M", "N", "G">>
AFG == <<"A", "F", "G">>
Estimates == <<"E", "s", "t", "i", "m", "a", "t", "e", "s">>
Y1950to1955 == <<"1", "9", "5", "0", "-", "1", "9", "5", "5">>
L1980 == <<"1", "9", "8", "0">>
L1985 == <<"1", "9", "8", "5">>
L1980to1984 == <<"1", "9", "8", "0", "-", "1", "9", "8", "4">>
L1985to1989 == <<"1", "9", "8", "5", "-", "1", "9", "8", "9">>
L1980to1985 == <<"1", "9", "8", "0", "-", "1", "9", "8", "5">>
L0to4 == <<"0", "-", "4">>
L0to5 == <<"0", "-", "5">>

(***************************************************************************)
(* Python's string operations.                                             *)
(***************************************************************************)
Digits == <<"0", "1", "2", "3", "4", "5", "6", "7", "8", "9">>

IsDigitChar(c) == \E i \in DOMAIN Digits : Digits[i] = c

DigitVal(c) == (CHOOSE i \in DOMAIN Digits : Digits[i] = c) - 1

\* str.isdigit: non-empty and every character a digit
isdigit(s) == Len(s) > 0 /\ \A i \in 1..Len(s) : IsDigitChar(s[i])

\* c in s
Contains(s, c) == \E i \in 1..Len(s) : s[i] = c

\* s.find(c): the 0-based place of the first c, -1 when there is none
find(s, c) ==
  IF Contains(s, c)
  THEN (CHOOSE i \in 1..Len(s) : s[i] = c /\ \A j \in 1..(i - 1) : s[j] # c) - 1
  ELSE -1

\* s[:k], a negative k counting from the end
SliceTo(s, k) ==
  IF k >= 0
  THEN SubSeq(s, 1, IF k < Len(s) THEN k ELSE Len(s))
  ELSE SubSeq(s, 1, IF Len(s) + k > 0 THEN Len(s) + k ELSE 0)

RECURSIVE ParseDigits(_)
ParseDigits(s) ==
  IF s = <<>> THEN 0
  ELSE 10 * ParseDigits(SubSeq(s, 1, Len(s) - 1)) + DigitVal(s[Len(s)])

\* int(s) and float(s) of a label: a value for a string of digits, ValueError
\* otherwise (the labels of the model carry no sign, blank, point or exponent)
int(s) == IF isdigit(s) THEN [ok |-> TRUE, v |-> ParseDigits(s)] ELSE [ok |-> FALSE]

float(s) == IF isdigit(s) THEN [ok |-> TRUE, v |-> 10 * ParseDigits(s)] ELSE [ok |-> FALSE]

RECURSIVE DigitsOf(_)
DigitsOf(n) ==
  IF n < 10 THEN <<Digits[n + 1]>> ELSE DigitsOf(n \div 10) \o <<Digits[(n % 10) + 1]>>

\* sqlite compares table names without regard to case
LowerMap ==
  ("A" :> "a") @@ ("B" :> "b") @@ ("C" :> "c") @@ ("D" :> "d") @@ ("E" :>
  "e") @@ ("F" :> "f") @@ ("G" :> "g") @@ ("H" :> "h") @@ ("I" :> "i") @@
  ("J" :> "j") @@ ("K" :> "k") @@ ("L" :> "l") @@ ("M" :> "m") @@ ("N" :>
  "n") @@ ("O" :> "o") @@ ("P" :> "p") @@ ("Q" :> "q") @@ ("R" :> "r") @@
  ("S" :> "s") @@ ("T" :> "t") @@ ("U" :> "u") @@ ("V" :> "v") @@ ("W" :>
  "w") @@ ("X" :> "x") @@ ("Y" :> "y") @@ ("Z" :> "z")

LowerChar(c) == IF c \in DOMAIN LowerMap THEN LowerMap[c] ELSE c

RECURSIVE Lower(_)
Lower(n) == IF n = <<>> THEN <<>> ELSE <<LowerChar(Head(n))>> \o Lower(Tail(n))

\* the lower-case form of the table names the source writes and reads,
\* computed once
LowerNames ==
  (un_iso3_map :> Lower(un_iso3_map)) @@ (crude_birth_rate :> Lower(crude_birth_rate))
  @@ (crude_birth_rate_mapped :> Lower(crude_birth_rate_mapped))
  @@ (bcg :> Lower(bcg)) @@ (BCG :> Lower(BCG))
  @@ (total_population_mapped :> Lower(total_population_mapped))

SqlName(n) == IF n \in DOMAIN LowerNames THEN LowerNames[n] ELSE Lower(n)

(***************************************************************************)
(* Cells, tables and frames.  A table of the store is [cols, rows]: the    *)
(* column labels in order and the rows in order, each row a sequence of    *)
(* cells aligned with the labels.  A data frame is the same, with its      *)
(* index kept apart.                                                       *)
(***************************************************************************)
Null == [null |-> TRUE]

NoneCell == [none |-> TRUE]

NaN == [nan |-> TRUE]

Num(n) == [i |-> n]

Str(s) == [s |-> s]

IsInt(c) == DOMAIN c = {"i"}

IsStr(c) == DOMAIN c = {"s"}

IsMissing(c) == c \in {Null, NoneCell, NaN}

Absent == [absent |-> TRUE]

ColIndex(cols, c) == CHOOSE j \in 1..Len(cols) : cols[j] = c

HasCol(cols, c) == \E j \in 1..Len(cols) : cols[j] = c

\* the rows whose cell in column j equals the text v, in order
RECURSIVE FilterRows(_, _, _)
FilterRows(rows, j, v) ==
  IF rows = <<>> THEN <<>>
  ELSE (IF Head(rows)[j] = Str(v) THEN <<Head(rows)>> ELSE <<>>)
       \o FilterRows(Tail(rows), j, v)

\* pandas.read_sql_query: a NULL comes back as NaN in a column that holds a
\* number in some returned row (the column is made float64) and as None in a
\* column that holds none (the column stays object)
ReadSqlRows(rows) ==
  [i \in 1..Len(rows) |->
    [j \in 1..Len(rows[i]) |->
      IF rows[i][j] = Null
      THEN (IF \E k \in 1..Len(rows) : IsInt(rows[k][j]) THEN NaN ELSE NoneCell)
      ELSE rows[i][j]]]

Project(cols, rows, column) ==
  IF column = Star THEN [cols |-> cols, rows |-> rows]
  ELSE [cols |-> <<column>>,
        rows |-> [i \in 1..Len(rows) |-> <<rows[i][ColIndex(cols, column)]>>]]

\* InputDB.db_query: "Select column from table_name", and " Where is_filter =
\* 'value'" only when is_filter and value are both non-empty.  The filter
\* columns of the model hold text, which sqlite compares exactly.
db_query(db, table_name, is_filter, value, column) ==
  LET key == SqlName(table_name) IN
  IF key \notin DOMAIN db \/ db[key] = Absent
  THEN [status |-> "OperationalError"]
  ELSE
    LET t == db[key]
        filtered == is_filter # Empty /\ value # Empty
    IN
    IF (filtered /\ ~HasCol(t.cols, is_filter)) \/ (column # Star /\ ~HasCol(t.cols, column))
    THEN [status |-> "OperationalError"]
    ELSE
      LET kept == IF filtered
                  THEN FilterRows(t.rows, ColIndex(t.cols, is_filter), value)
                  ELSE t.rows
          p == Project(t.cols, kept, column)
      IN [status |-> "ok", cols |-> p.cols, rows |-> ReadSqlRows(p.rows)]

(***************************************************************************)
(* Writing and reading whole tables.                                       *)
(***************************************************************************)
TableNames == {un_iso3_map, crude_birth_rate, crude_birth_rate_mapped}

ToSqlCell(c) == IF IsMissing(c) THEN Null ELSE c

RangeIndex(n) == [name |-> indexCol, vals |-> [i \in 1..n |-> Num(i - 1)]]

\* the table DataFrame.to_sql writes: the index first, then the columns
SqlTable(frame) ==
  [cols |-> <<frame.index.name>> \o frame.cols,
   rows |-> [i \in 1..Len(frame.rows) |->
              <<ToSqlCell(frame.index.vals[i])>>
              \o [j \in 1..Len(frame.rows[i]) |-> ToSqlCell(frame.rows[i][j])]]]

\* to_sql as if_exists="append" would have it: the rows are added to those
\* the table already holds
to_sql_append(db, name, frame) ==
  [db EXCEPT ![SqlName(name)] =
     IF @ = Absent THEN SqlTable(frame)
     ELSE [cols |-> SqlTable(frame).cols, rows |-> @.rows \o SqlTable(frame).rows]]

\* DataFrame.to_sql(name, if_exists="replace")
to_sql(db, name, frame) == [db EXCEPT ![SqlName(name)] = SqlTable(frame)]

Without(s, j) == SubSeq(s, 1, j - 1) \o SubSeq(s, j + 1, Len(s))

\* pd.read_excel(..., index_col=1): the second column of the sheet is the index
read_excel(sheet) ==
  [index |-> [name |-> sheet.cols[2],
              vals |-> [i \in 1..Len(sheet.rows) |-> sheet.rows[i][2]]],
   cols |-> Without(sheet.cols, 2),
   rows |-> [i \in 1..Len(sheet.rows) |-> Without(sheet.rows[i], 2)]]

\* pd.read_csv: the columns of the file under a fresh 0..n-1 index
read_csv(file) ==
  [index |-> RangeIndex(Len(file.rows)), cols |-> file.cols, rows |-> file.rows]

LocationsFile == "../xls/WPP2019_F01_LOCATIONS.xlsx"

BirthRateFile == "../xls/WPP2019_FERT_F03_CRUDE_BIRTH_RATE.xlsx"

OtherFile == "../xls/other.xlsx"

\* self.tab_of_interest and self.output_name, for the files of the model
tab_of_interest == (LocationsFile :> "Location") @@ (BirthRateFile :> "ESTIMATES")

output_name == (LocationsFile :> un_iso3_map) @@ (BirthRateFile :> crude_birth_rate)

(***************************************************************************)
(* The inputs: the sheets and csv files that can be on disk.               *)
(***************************************************************************)
SeqsUpTo(S, n) == UNION {[1..k -> S] : k \in 0..n}

\* rows under their row number in the sheet's "Index" column
Numbered(bodies) == [i \in 1..Len(bodies) |-> <<Num(i)>> \o bodies[i]]

LocationRows == {<<Num(496), Str(MNG)>>, <<Num(4), Null>>, <<Null, Str(AFG)>>}

LocationSheets ==
  {[cols |-> <<IndexCol, LocationCode, ISO3AlphaCode>>, rows |-> Numbered(b)] :
     b \in SeqsUpTo(LocationRows, MaxRows)}

IndicatorRows == {<<Str(Estimates), Num(496)>>, <<Str(Estimates), Num(8)>>}

IndicatorSheets ==
  {[cols |-> <<IndexCol, VariantCol, CountryCode>>, rows |-> Numbered(b)] :
     b \in SeqsUpTo(IndicatorRows, MaxRows)}

Sheets(file) ==
  IF file = LocationsFile THEN LocationSheets
  ELSE IF file = BirthRateFile THEN IndicatorSheets
  ELSE {[cols |-> <<IndexCol, VariantCol>>, rows |-> <<>>]}

CsvStems == {crude_birth_rate_mapped}

CsvFiles ==
  {[cols |-> <<CountryCode>>, rows |-> b] : b \in SeqsUpTo({<<Num(8)>>}, MaxRows)}

(***************************************************************************)
(* The crosswalk and the join.                                             *)
(***************************************************************************)
\* dropna as how="all" would have it: only rows with every field missing go
RECURSIVE dropna_all(_)
dropna_all(rows) ==
  IF rows = <<>> THEN <<>>
  ELSE (IF \A j \in 1..Len(Head(rows)) : IsMissing(Head(rows)[j])
        THEN <<>> ELSE <<Head(rows)>>)
       \o dropna_all(Tail(rows))

RECURSIVE dropna(_)
dropna(rows) ==
  IF rows = <<>> THEN <<>>
  ELSE (IF \E j \in 1..Len(Head(rows)) : IsMissing(Head(rows)[j])
        THEN <<>> ELSE <<Head(rows)>>)
       \o dropna(Tail(rows))

\* the frame get_un_iso_map assigns to self.map_df, or the error it raises
BuildMap(db) ==
  LET q == db_query(db, un_iso3_map, Empty, Empty, Star) IN
  IF q.status # "ok" THEN [status |-> q.status]
  ELSE IF ~HasCol(q.cols, LocationCode) \/ ~HasCol(q.cols, ISO3AlphaCode)
  THEN [status |-> "KeyError"]
  ELSE
    LET a == ColIndex(q.cols, LocationCode)
        b == ColIndex(q.cols, ISO3AlphaCode)
    IN [status |-> "ok",
        frame |-> [cols |-> <<LocationCode, ISO3AlphaCode>>,
                   rows |-> dropna([i \in 1..Len(q.rows) |->
                                     <<q.rows[i][a], q.rows[i][b]>>])]]

\* the right rows whose key equals k, each behind the left row l
RECURSIVE Matches(_, _, _, _)
Matches(l, k, right, rj) ==
  IF right = <<>> THEN <<>>
  ELSE (IF Head(right)[rj] = k THEN <<l \o Head(right)>> ELSE <<>>)
       \o Matches(l, k, Tail(right), rj)

RECURSIVE MergeRows(_, _, _, _)
MergeRows(left, right, lj, rj) ==
  IF left = <<>> THEN <<>>
  ELSE Matches(Head(left), Head(left)[lj], right, rj)
       \o MergeRows(Tail(left), right, lj, rj)

\* pd.merge(left, right, left_on=, right_on=): the inner join, in the order of
\* the left rows, one row for every pair of rows with equal keys
merge(left, right, left_on, right_on) ==
  [cols |-> left.cols \o right.cols,
   rows |-> MergeRows(left.rows, right.rows,
                      ColIndex(left.cols, left_on), ColIndex(right.cols, right_on))]

rename(cols, from, to) == [j \in 1..Len(cols) |-> IF cols[j] = from THEN to ELSE cols[j]]

drop(frame, c) ==
  IF ~HasCol(frame.cols, c) THEN frame
  ELSE LET j == ColIndex(frame.cols, c) IN
       [cols |-> Without(frame.cols, j),
        rows |-> [i \in 1..Len(frame.rows) |-> Without(frame.rows[i], j)]]

\* the frame add_iso_to_table writes to table_name + "_mapped"
table_with_iso(q, map) ==
  LET m == merge(q, map, CountryCode, LocationCode)
      d == drop([cols |-> rename(m.cols, ISO3AlphaCode, iso3), rows |-> m.rows], IndexCol)
  IN [index |-> RangeIndex(Len(d.rows)), cols |-> d.cols, rows |-> d.rows]

(***************************************************************************)
(* The store: loads, the crosswalk and the join.                           *)
(***************************************************************************)
NoTable == [t \in TableNames |-> Absent]

Outcome(op, arg, status) == [op |-> op, arg |-> arg, status |-> status]

Init ==
  /\ tables = NoTable
  /\ map_df = NoneCell
  /\ ret = Outcome("__init__", Empty, "ok")
  /\ lastLoad = NoTable
  /\ lastJoin = NoTable
  /\ writer = [t \in TableNames |-> "none"]
  /\ built = 0

\* the history of a load of `frame` under `name`
Loaded(name, frame) ==
  /\ lastLoad' = [lastLoad EXCEPT ![SqlName(name)] = SqlTable(frame)]
  /\ writer' = [writer EXCEPT ![SqlName(name)] = "load"]
  /\ built' = IF SqlName(name) = un_iso3_map THEN 0 ELSE built
  /\ UNCHANGED <<map_df, lastJoin>>

Built == IF built < 2 THEN built + 1 ELSE built

\* update_xl_reads([file]) with `sheet` under the file's header row
update_xl_reads(file, sheet) ==
  IF file \notin DOMAIN tab_of_interest
  THEN /\ ret' = Outcome("update_xl_reads", Empty, "KeyError")
       /\ UNCHANGED <<tables, map_df, lastLoad, lastJoin, writer, built>>
  ELSE LET data_title == output_name[file] IN
       /\ tables' = to_sql(tables, data_title, read_excel(sheet))
       /\ Loaded(data_title, read_excel(sheet))
       /\ ret' = Outcome("update_xl_reads", data_title, "ok")

\* update_csv_reads over one file <stem>.csv
update_csv_reads(stem, file) ==
  /\ tables' = to_sql(tables, stem, read_csv(file))
  /\ Loaded(stem, read_csv(file))
  /\ ret' = Outcome("update_csv_reads", stem, "ok")

get_un_iso_map ==
  LET m == BuildMap(tables) IN
  /\ map_df' = IF m.status = "ok" THEN m.frame ELSE map_df
  /\ built' = IF m.status = "ok" THEN Built ELSE built
  /\ ret' = Outcome("get_un_iso_map", Empty, m.status)
  /\ UNCHANGED <<tables, lastLoad, lastJoin, writer>>

\* the name of the table joined, in place of the name of the mapped table
MappedNameSame(table_name) == table_name

MappedName(table_name) == table_name \o MappedSuffix

add_iso_to_table(table_name) ==
  LET m == BuildMap(tables)
      q == db_query(tables, table_name, Empty, Empty, Star)
      target == SqlName(MappedName(table_name))
  IN
  /\ target \in TableNames
  /\ IF m.status # "ok"
     THEN /\ ret' = Outcome("add_iso_to_table", table_name, m.status)
          /\ UNCHANGED <<tables, map_df, lastLoad, lastJoin, writer, built>>
     ELSE /\ map_df' = m.frame
          /\ built' = Built
          /\ IF q.status # "ok" \/ ~HasCol(q.cols, CountryCode)
             THEN /\ ret' = Outcome("add_iso_to_table", table_name,
                                   IF q.status # "ok" THEN q.status ELSE "KeyError")
                  /\ UNCHANGED <<tables, lastLoad, lastJoin, writer>>
             ELSE /\ tables' = to_sql(tables, MappedName(table_name),
                                      table_with_iso(q, m.frame))
                  /\ lastJoin' = [lastJoin EXCEPT ![SqlName(table_name)] = tables'[target]]
                  /\ writer' = [writer EXCEPT ![target] = "join"]
                  /\ ret' = Outcome("add_iso_to_table", table_name, "ok")
                  /\ UNCHANGED lastLoad

Next ==
  \/ \E file \in {LocationsFile, BirthRateFile, OtherFile} :
       \E sheet \in Sheets(file) : update_xl_reads(file, sheet)
  \/ \E stem \in CsvStems : \E file \in CsvFiles : update_csv_reads(stem, file)
  \/ get_un_iso_map
  \/ \E t \in TableNames : add_iso_to_table(t)

Spec == Init /\ [][Next]_vars

(***************************************************************************)
(* The extraction functions.  A series is a function from period keys, in  *)
(* tenths, to values; a value is a ratio [num, den] or NaN.                *)
(***************************************************************************)
\* d[k] = v of a dict: a key already there is overwritten
Put(d, k, v) == [x \in DOMAIN d \cup {k} |-> IF x = k THEN v ELSE d[x]]

EmptyDict == [x \in {} |-> NaN]

\* what the dict comprehension of get_bcg_coverage has built after the columns
\* from j on: keys int(column), values value / 1e2, for the columns that are
\* all digits and whose value `is not None`
RECURSIVE BcgItems(_, _, _, _)
BcgItems(cols, row, j, d) ==
  IF j > Len(cols) THEN [status |-> "ok", series |-> d]
  ELSE IF ~isdigit(cols[j]) \/ row[j] = NoneCell THEN BcgItems(cols, row, j + 1, d)
  ELSE IF IsStr(row[j]) THEN [status |-> "TypeError"]
  ELSE BcgItems(cols, row, j + 1,
                Put(d, 10 * int(cols[j]).v,
                    IF row[j] = NaN THEN NaN ELSE [num |-> row[j].i, den |-> 100]))

get_bcg_coverage(db, country_iso_code) ==
  LET q == db_query(db, BCG, ISO_code, country_iso_code, Star) IN
  IF q.status # "ok" THEN [status |-> q.status]
  ELSE IF q.rows = <<>> THEN [status |-> "KeyError"]
  ELSE BcgItems(q.cols, q.rows[1], 1, EmptyDict)

get_all_iso3_from_bcg(db) ==
  LET q == db_query(db, bcg, Empty, Empty, ISO_code) IN
  IF q.status # "ok" THEN [status |-> q.status]
  ELSE [status |-> "ok", list |-> [i \in 1..Len(q.rows) |-> q.rows[i][1]]]

\* the start of the period in place of its mid-point
MidPointStart(key) ==
  LET start == float(SliceTo(key, find(key, "-"))) IN
  IF start.ok THEN [ok |-> TRUE, v |-> start.v] ELSE [ok |-> FALSE]

\* the mid-point of the period a "start-end" label names: float(start) + 2.5
MidPoint(key) ==
  LET start == float(SliceTo(key, find(key, "-"))) IN
  IF start.ok THEN [ok |-> TRUE, v |-> start.v + 25] ELSE [ok |-> FALSE]

\* float(value) / 1e3 of a cell
PerCapita(value) ==
  IF value = NoneCell THEN [status |-> "TypeError"]
  ELSE IF value = NaN THEN [status |-> "ok", v |-> NaN]
  ELSE IF IsStr(value)
  THEN (IF float(value.s).ok
        THEN [status |-> "ok", v |-> [num |-> ParseDigits(value.s), den |-> 1000]]
        ELSE [status |-> "ValueError"])
  ELSE [status |-> "ok", v |-> [num |-> value.i, den |-> 1000]]

\* the dict comprehension of get_crude_birth_rate, over the columns with a "-"
RECURSIVE BirthRateItems(_, _, _, _)
BirthRateItems(cols, row, j, d) ==
  IF j > Len(cols) THEN [status |-> "ok", series |-> d]
  ELSE IF ~Contains(cols[j], "-") THEN BirthRateItems(cols, row, j + 1, d)
  ELSE IF ~MidPoint(cols[j]).ok THEN [status |-> "ValueError"]
  ELSE IF PerCapita(row[j]).status # "ok" THEN [status |-> PerCapita(row[j]).status]
  ELSE BirthRateItems(cols, row, j + 1, Put(d, MidPoint(cols[j]).v, PerCapita(row[j]).v))

get_crude_birth_rate(db, country_iso_code) ==
  LET q == db_query(db, crude_birth_rate_mapped, iso3, country_iso_code, Star) IN
  IF q.status # "ok" THEN [status |-> q.status]
  ELSE IF q.rows = <<>> THEN [status |-> "KeyError"]
  ELSE BirthRateItems(q.cols, q.rows[1], 1, EmptyDict)

\* str(x) of a cell
str(x) ==
  IF x = NoneCell THEN <<"N", "o", "n", "e">>
  ELSE IF x = NaN THEN <<"n", "a", "n">>
  ELSE IF IsStr(x) THEN x.s
  ELSE DigitsOf(x.i)

\* the lambda applied to the "Period" column
LeadingYear(x) ==
  IF Contains(str(x), "-") THEN SliceTo(str(x), find(str(x), "-")) ELSE str(x)

\* the places, in order, of the labels that satisfy Contains(_, "-")
RECURSIVE HyphenColumns(_, _)
HyphenColumns(cols, j) ==
  IF j > Len(cols) THEN <<>>
  ELSE (IF Contains(cols[j], "-") THEN <<j>> ELSE <<>>) \o HyphenColumns(cols, j + 1)

\* the label an age-band column gets: the integer before its hyphen
BandLabel(column) ==
  IF Contains(column, "-") THEN int(SliceTo(column, find(column, "-")))
  ELSE [ok |-> TRUE, v |-> column]

\* the frame extract_demo_data returns: columns as Num(lower bound) for the
\* age bands and Str(Period) last; the lower bounds are whole numbers
extract_demo_data(db, data_type, country_iso_code) ==
  LET q == db_query(db, data_type, iso3, country_iso_code, Star) IN
  IF q.status # "ok" THEN [status |-> q.status]
  ELSE
    LET renamed == rename(rename(q.cols, L95plus, L95dash), RefDate, Period)
        keep == HyphenColumns(renamed, 1)
    IN
    IF ~HasCol(renamed, Period) THEN [status |-> "KeyError"]
    ELSE IF \E k \in 1..Len(keep) : ~BandLabel(renamed[keep[k]]).ok
    THEN [status |-> "ValueError"]
    ELSE
      LET p == ColIndex(renamed, Period) IN
      [status |-> "ok",
       cols |-> [k \in 1..Len(keep) |-> Num(BandLabel(renamed[keep[k]]).v)] \o <<Str(Period)>>,
       rows |-> [i \in 1..Len(q.rows) |->
                  [k \in 1..Len(keep) |-> q.rows[i][keep[k]]]
                  \o <<Str(LeadingYear(q.rows[i][p]))>>]]

(***************************************************************************)
(* Reading a loaded store: the tables that can have been loaded, and the   *)
(* calls that read them.                                                   *)
(***************************************************************************)
ReadNames == {bcg, crude_birth_rate_mapped, total_population_mapped}

Countries == {MNG, AFG}

\* a row: the country, then one cell per value column, empty or the number
\* given for the column
RowsOver(lead, values) ==
  IF Len(values) = 2
  THEN {lead \o <<a, b>> : a \in {Null, Num(values[1])}, b \in {Null, Num(values[2])}}
  ELSE {lead \o <<a>> : a \in {Null, Num(values[1])}}

BcgHeaders == {<<L1980, L1985>>, <<L1980, L95plus>>}

\* the coverage sheet: the ISO code is its second column, so it is the index
BcgSheets ==
  UNION {{[cols |-> <<VaccineCol, ISO_code>> \o h, rows |-> b] :
            b \in SeqsUpTo(UNION {RowsOver(<<Str(BCG), Str(c)>>, <<87, 34>>) : c \in Countries},
                           MaxRows)} : h \in BcgHeaders}

BirthRateHeaders == {<<L1980to1984, L1985to1989>>, <<L1980to1984, L1980to1985>>,
                     <<L1980to1984, L95plus>>}

\* tables as add_iso_to_table writes them: a 0..n-1 index, then the columns
MappedBirthRates ==
  UNION {{[cols |-> <<iso3>> \o h, rows |-> b] :
            b \in SeqsUpTo(UNION {RowsOver(<<Str(c)>>, <<20, 34>>) : c \in Countries},
                           MaxRows)} : h \in BirthRateHeaders}

\* the age bands of a table, and the reference date its rows carry
PopulationHeaders ==
  {[bands |-> <<L0to4, L95plus>>, date |-> Num(1950)],
   [bands |-> <<L0to4, L0to5>>, date |-> Str(Y1950to1955)]}

MappedPopulations ==
  UNION {{[cols |-> <<iso3, RefDate>> \o h.bands, rows |-> b] :
            b \in SeqsUpTo(UNION {RowsOver(<<Str(c), h.date>>, <<20, 34>>) : c \in Countries},
                           MaxRows)} : h \in PopulationHeaders}

Contents(n) ==
  IF n = bcg THEN {SqlTable(read_excel(sheet)) : sheet \in BcgSheets}
  ELSE IF n = crude_birth_rate_mapped THEN {SqlTable(read_csv(f)) : f \in MappedBirthRates}
  ELSE {SqlTable(read_csv(f)) : f \in MappedPopulations}

InitRead ==
  /\ \E n \in ReadNames : \E c \in Contents(n) :
       tables = [t \in ReadNames |-> IF t = n THEN c ELSE Absent]
  /\ map_df = NoneCell
  /\ ret = Outcome("__init__", Empty, "ok")
  /\ lastLoad = [t \in ReadNames |-> Absent]
  /\ lastJoin = [t \in ReadNames |-> Absent]
  /\ writer = [t \in ReadNames |-> "none"]
  /\ built = 0

Frozen == UNCHANGED <<tables, map_df, lastLoad, lastJoin, writer, built>>

Called(op, arg, result) == [f \in {"op", "arg"} \cup DOMAIN result |->
                             IF f = "op" THEN op ELSE IF f = "arg" THEN arg ELSE result[f]]

DbQuery(table_name, is_filter, value) ==
  /\ ret' = Called("db_query", <<table_name, is_filter, value>>,
                   db_query(tables, table_name, is_filter, value, Star))
  /\ Frozen

GetBcgCoverage(country) ==
  /\ ret' = Called("get_bcg_coverage", country, get_bcg_coverage(tables, country))
  /\ Frozen

GetAllIso3FromBcg ==
  /\ ret' = Called("get_all_iso3_from_bcg", Empty, get_all_iso3_from_bcg(tables))
  /\ Frozen

GetCrudeBirthRate(country) ==
  /\ ret' = Called("get_crude_birth_rate", country, get_crude_birth_rate(tables, country))
  /\ Frozen

ExtractDemoData(data_type, country) ==
  /\ ret' = Called("extract_demo_data", country, extract_demo_data(tables, data_type, country))
  /\ Frozen

Arguments == Countries \cup {Empty}

NextRead ==
  \/ \E n \in {BCG, crude_birth_rate_mapped} : \E f \in {Empty, ISO_code, iso3} :
       \E v \in Arguments : DbQuery(n, f, v)
  \/ \E c \in Arguments : GetBcgCoverage(c)
  \/ GetAllIso3FromBcg
  \/ \E c \in Arguments : GetCrudeBirthRate(c)
  \/ \E c \in Arguments : ExtractDemoData(total_population_mapped, c)

SpecRead == InitRead /\ [][NextRead]_vars

(***************************************************************************)
(* Properties of the store.                                                *)
(***************************************************************************)
\* what a query of the table with no filter returns when it holds `content`
Returns(t, content) ==
  LET q == db_query(tables, t, Empty, Empty, Star) IN
  /\ q.status = "ok"
  /\ q.cols = content.cols
  /\ q.rows = ReadSqlRows(content.rows)

\* C1 as stated: after any sequence of loads and joins, a query with no filter
\* of any table name that has been loaded returns exactly the rows of the most
\* recent load under that name.
C1_QueryReturnsLastLoad ==
  \A t \in TableNames : lastLoad[t] # Absent => Returns(t, lastLoad[t])

\* C1 as amended: the same, for every table name that no add_iso_to_table has
\* written since its most recent load (a join of T writes the name T_mapped,
\* which a file can be loaded under as well).
C1_QueryReturnsLastLoadUnlessJoined ==
  \A t \in TableNames : writer[t] = "load" => Returns(t, lastLoad[t])

\* C1, a case: a table reloaded, now empty, after a join was made from it, the
\* mapped table still holding the rows of the join
C1_Witness ==
  /\ writer[crude_birth_rate] = "load"
  /\ writer[crude_birth_rate_mapped] = "join"
  /\ Len(tables[crude_birth_rate_mapped].rows) > 0
  /\ tables[crude_birth_rate].rows = <<>>

\* the code is a 'Location code' of the crosswalk
HasEntry(code, map) == \E k \in 1..Len(map.rows) : map.rows[k][1] = code

\* the 'Country code' values of the rows of table t
NativeCodes(t) ==
  LET j == ColIndex(t.cols, CountryCode) IN {t.rows[i][j] : i \in 1..Len(t.rows)}

\* C2: a join writes a table of at most as many rows as the table joined, and
\* of as many exactly when every native code has a crosswalk entry.
C2_JoinRowCount ==
  [][(ret'.op = "add_iso_to_table" /\ ret'.status = "ok") =>
       LET t == tables[SqlName(ret'.arg)]
           m == tables'[SqlName(ret'.arg \o MappedSuffix)]
       IN /\ Len(m.rows) <= Len(t.rows)
          /\ (Len(m.rows) = Len(t.rows)) <=> (\A c \in NativeCodes(t) : HasEntry(c, map_df'))]_vars

\* how often the pair <<code, iso>> occurs among the rows, read at columns a, b
Count(rows, a, b, pair) ==
  Cardinality({i \in 1..Len(rows) : <<rows[i][a], rows[i][b]>> = pair})

CrosswalkPairs ==
  {<<c, a>> : c \in {Null, Num(4), Num(496)}, a \in {Null, Str(MNG), Str(AFG)}}

\* C8: a build leaves in self.map_df exactly the (Location code, ISO3
\* Alpha-code) pairs of the locations rows that have both, each as often as the
\* table holds it, and a build that follows a build with no load of the
\* locations table in between leaves self.map_df as it was.
C8_BuildIdempotent ==
  [][(ret'.op = "get_un_iso_map" /\ ret'.status = "ok") =>
       LET loc == tables[un_iso3_map]
           a == ColIndex(loc.cols, LocationCode)
           b == ColIndex(loc.cols, ISO3AlphaCode)
       IN /\ map_df'.cols = <<LocationCode, ISO3AlphaCode>>
          /\ \A p \in CrosswalkPairs :
               Count(map_df'.rows, 1, 2, p) =
                 IF p[1] = Null \/ p[2] = Null THEN 0 ELSE Count(loc.rows, a, b, p)
          /\ Len(map_df'.rows) = Cardinality({i \in 1..Len(loc.rows) :
                                    loc.rows[i][a] # Null /\ loc.rows[i][b] # Null})
          /\ (built >= 1 => map_df' = map_df)]_vars

\* C8, a case: a second build in a row, over locations rows of which one is
\* kept and one is dropped
C8_Witness ==
  /\ ret.op = "get_un_iso_map"
  /\ ret.status = "ok"
  /\ built = 2
  /\ Len(map_df.rows) = 1
  /\ Len(tables[un_iso3_map].rows) = 2

\* C10 as stated: a join of T writes only T_mapped, a load writes only the
\* table it loads, and so T_mapped always holds what the most recent join of T
\* wrote.
C10_MappedHoldsLastJoin ==
  \A t \in TableNames :
    lastJoin[t] # Absent => tables[SqlName(t \o MappedSuffix)] = lastJoin[t]

\* C10 as amended: a join of T writes only T_mapped and a load writes only the
\* table it loads, and T_mapped holds what the most recent join of T wrote
\* until a file is loaded under the name T_mapped itself.
C10_MappedHoldsLastJoinUnlessLoaded ==
  [][/\ ret'.op = "add_iso_to_table" =>
          \A n \in TableNames \ {SqlName(ret'.arg \o MappedSuffix)} : tables'[n] = tables[n]
     /\ ret'.op \in {"update_xl_reads", "update_csv_reads"} =>
          \A n \in TableNames \ {SqlName(ret'.arg)} : tables'[n] = tables[n]
     /\ ret'.op = "get_un_iso_map" => tables' = tables
     /\ \A t \in TableNames :
          (lastJoin'[t] # Absent /\ writer'[SqlName(t \o MappedSuffix)] = "join")
            => tables'[SqlName(t \o MappedSuffix)] = lastJoin'[t]]_vars

\* C10, a case: the table a join was made from has just been loaded again, and
\* the mapped table still holds the rows the join wrote
C10_Witness ==
  /\ ret.op = "update_xl_reads"
  /\ ret.arg = crude_birth_rate
  /\ writer[crude_birth_rate_mapped] = "join"
  /\ Len(tables[crude_birth_rate_mapped].rows) > Len(tables[crude_birth_rate].rows)

(***************************************************************************)
(* Properties of the readers.                                              *)
(***************************************************************************)
SeriesCall == ret.op \in {"get_bcg_coverage", "get_crude_birth_rate"}

\* the table a call reads and the column it filters on
Source ==
  IF ret.op = "get_bcg_coverage" THEN tables[bcg]
  ELSE IF ret.op = "get_crude_birth_rate" THEN tables[crude_birth_rate_mapped]
  ELSE tables[total_population_mapped]

CountryColumn == IF ret.op = "get_bcg_coverage" THEN ISO_code ELSE iso3

\* the rows of the table read whose country is the one asked for
Matching ==
  {i \in 1..Len(Source.rows) : Source.rows[i][ColIndex(Source.cols, CountryColumn)] = Str(ret.arg)}

\* the period columns of the table read, and the key each stands for
PeriodColumns ==
  {j \in 1..Len(Source.cols) :
     IF ret.op = "get_bcg_coverage" THEN isdigit(Source.cols[j])
     ELSE Contains(Source.cols[j], "-")}

KeyOf(j) ==
  IF ret.op = "get_bcg_coverage" THEN 10 * ParseDigits(Source.cols[j])
  ELSE 10 * ParseDigits(SliceTo(Source.cols[j], find(Source.cols[j], "-"))) + 25

\* a series call for a country, the table it reads being there, and the
\* call for a country with k rows in it
SeriesCallOn == SeriesCall /\ Source # Absent /\ ret.arg \in Countries

SeriesCallFor(k) == SeriesCallOn /\ Cardinality(Matching) = k

SeriesCallForSeveral == SeriesCallOn /\ Cardinality(Matching) >= 2

\* C3: extraction for a country that matches no row returns the empty series
\* and raises nothing.
C3_NoRowGivesEmptySeries ==
  SeriesCallFor(0) => (ret.status = "ok" /\ DOMAIN ret.series = {})

\* C4: extraction for a country that matches two or more rows raises
\* AmbiguousRow and returns no series.
C4_TwoRowsRaise ==
  SeriesCallForSeveral => ret.status = "AmbiguousRow"

\* C6: for a country with exactly one row (and period labels with distinct
\* keys) the series has an entry for exactly the period columns whose value
\* is not null, and a null raises nothing.
C6_NullsAreDropped ==
  (SeriesCallFor(1) /\ \A j, k \in PeriodColumns : KeyOf(j) = KeyOf(k) => j = k) =>
    LET i == CHOOSE i \in Matching : TRUE IN
    /\ ret.status = "ok"
    /\ DOMAIN ret.series = {KeyOf(j) : j \in {j \in PeriodColumns : Source.rows[i][j] # Null}}

\* the age-band labels of the population table after the rename of "95+"
BandColumns ==
  {j \in 1..Len(Source.cols) : Contains(rename(Source.cols, L95plus, L95dash)[j], "-")}

BandOf(j) ==
  LET c == rename(Source.cols, L95plus, L95dash)[j] IN ParseDigits(SliceTo(c, find(c, "-")))

\* C7: when two labels of the row stand for the same period key, extraction
\* reports an error and returns nothing.
C7_DuplicateKeysRaise ==
  /\ (SeriesCallFor(1) /\ ret.op = "get_crude_birth_rate"
        /\ \E j, k \in PeriodColumns : j # k /\ KeyOf(j) = KeyOf(k))
       => ret.status # "ok"
  /\ (ret.op = "extract_demo_data" /\ Source # Absent
        /\ \E j, k \in BandColumns : j # k /\ BandOf(j) = BandOf(k))
       => ret.status # "ok"

\* C9: a query with a filter column and a filter value, the empty string
\* included, returns exactly the rows whose cell in the column is the value; the
\* whole table is returned only when no filter column is given.
C9_FilterIsExact ==
  ret.op = "db_query" =>
    LET t == tables[SqlName(ret.arg[1])]
        f == ret.arg[2]
        Equal(r) == r[ColIndex(t.cols, f)] = Str(ret.arg[3])
    IN (t # Absent /\ (f = Empty \/ HasCol(t.cols, f))) =>
         /\ ret.status = "ok"
         /\ ret.rows = ReadSqlRows(IF f = Empty THEN t.rows ELSE SelectSeq(t.rows, Equal))

\* the value the one matching row has under the label, Null when the table
\* has no such column
Under(label) ==
  IF HasCol(Source.cols, label)
  THEN Source.rows[CHOOSE i \in Matching : TRUE][ColIndex(Source.cols, label)]
  ELSE Null

\* "1980" gives 1980 and "1980-1984" gives 1982.5
C5_YearsAndRanges ==
  /\ (SeriesCallFor(1) /\ ret.op = "get_bcg_coverage" /\ Under(L1980) # Null) =>
       (ret.status = "ok" /\ 19800 \in DOMAIN ret.series /\ 19825 \notin DOMAIN ret.series)
  /\ (SeriesCallFor(1) /\ ret.op = "get_crude_birth_rate" /\ ret.status = "ok"
        /\ HasCol(Source.cols, L1980to1984)) =>
       (19825 \in DOMAIN ret.series /\ 19800 \notin DOMAIN ret.series)

\* "95+" gives 95 in the demographic reshape
C5_OpenBandDemographic ==
  (ret.op = "extract_demo_data" /\ Source # Absent /\ ret.status = "ok"
     /\ HasCol(Source.cols, L95plus)) =>
    (\E j \in 1..Len(ret.cols) : ret.cols[j] = Num(95))

====
